---- MODULE Spec2Model ----
(***************************************************************************)
(* A model of the kqueue Watcher: the registration set (a HashSet of       *)
(* Watched entries with the crate's own Hash and PartialEq), the kernel    *)
(* queue behind it, descriptor ownership, and event retrieval.             *)
(***************************************************************************)
EXTENDS Integers, Sequences, FiniteSets, TLC

\* ------------------------------------------------------------------ bounds
\* The process's descriptor table is 3..MaxFd (0, 1 and 2 are the standard
\* streams); File::open takes the lowest free one.
MaxFd == 5
\* The adds stop when the registration set holds this many entries.
MaxWatched == 2
\* Kernel events that may be pending on the queue at once.
MaxPending == 1
\* The length of a run: calls on the watcher and kernel steps together.
MaxSteps == 5

Fds == 3..MaxFd
\* The descriptors the caller holds open and may hand over, and the process
\* ids and timer ids it names: the same number, so that the kinds' keys meet.
CallerFds == {3}
Pids == {3}
TimerIds == {3}
Paths == {"a"}

\* ------------------------------------------------------------ kqueue_sys
\* EventFilter values the model uses; EVFILT_SYSCOUNT is what get_event
\* initialises its record with.
EVFILT_READ == "EVFILT_READ"
EVFILT_WRITE == "EVFILT_WRITE"
EVFILT_VNODE == "EVFILT_VNODE"
EVFILT_PROC == "EVFILT_PROC"
EVFILT_SIGNAL == "EVFILT_SIGNAL"
EVFILT_TIMER == "EVFILT_TIMER"
EVFILT_SYSCOUNT == "EVFILT_SYSCOUNT"

\* The filters a caller passes to add_fd/add_file, to add_pid, to add_filename
\* and to remove_fd/remove_file/remove_pid.
FdFilters == {EVFILT_READ, EVFILT_WRITE}
PidFilters == {EVFILT_PROC}
FileFilters == {EVFILT_VNODE}
RemoveFilters == {EVFILT_READ, EVFILT_PROC}

\* FilterFlag is a bit set; a value is the set of the NOTE_ names it holds.
NOTE_FFNOP == {}
FdFlags == {{}, {"NOTE_LOWAT"}}
PidFlags == {{"NOTE_EXIT"}, {"NOTE_EXIT", "NOTE_FORK"}}
FileFlags == {{"NOTE_WRITE"}}

\* ------------------------------------------------------------- Duration
\* std::time::Duration: u64 seconds and u32 sub-second nanoseconds. The u64 is
\* kept as its top 16 bits (hi) and its low 31 bits (secs); the bits between are
\* zero in every duration of the model.
Duration(hi, secs, nanos) == [hi |-> hi, secs |-> secs, nanos |-> nanos]
ZeroDuration == Duration(0, 0, 0)
Durations == {Duration(0, 1, 500000000), Duration(32768, 0, 0)}
TimerDurations == {Duration(0, 0, 50000000)}

\* ------------------------------------------------------------------ u64
\* A 64-bit word is four 16-bit limbs, the lowest first.
Limb == 65536
Zero64 == <<0, 0, 0, 0>>
as_secs(d) == <<d.secs % Limb, d.secs \div Limb, 0, d.hi>>
subsec_nanos(d) == d.nanos

\* x * k and x + a for a small k and a, limb by limb with the carry; the result
\* has one limb more than x, the last carry.
RECURSIVE MulLimbs(_, _, _)
MulLimbs(x, k, carry) ==
  IF x = <<>> THEN <<carry>>
  ELSE LET p == Head(x) * k + carry
       IN  <<p % Limb>> \o MulLimbs(Tail(x), k, p \div Limb)

RECURSIVE AddLimbs(_, _)
AddLimbs(x, a) ==
  IF x = <<>> THEN <<a>>
  ELSE LET p == Head(x) + a
       IN  <<p % Limb>> \o AddLimbs(Tail(x), p \div Limb)

\* The u64 operators of a build: the low 64 bits, and whether the exact result
\* needed more (a panic with overflow checks on, a wrap with them off).
Low64(x) == SubSeq(x, 1, 4)
Overflows64(x) == x[5] # 0
\* `as i64`: the same bits; the value is negative when the top bit is set.
IsNegative64(x) == x[4] >= Limb \div 2

\* watch, for a Timer entry:
\*   (dur.as_secs() * 1000 + (dur.subsec_nanos() / 1_000_000) as u64) as i64
\* with overflow checks (checks) the multiplication and the addition panic when
\* they overflow; without, they wrap. The cast never panics.
timer_data(dur, checks) ==
  LET prod == MulLimbs(as_secs(dur), 1000, 0)
      sum == AddLimbs(Low64(prod), subsec_nanos(dur) \div 1000000)
  IN  IF checks /\ (Overflows64(prod) \/ Overflows64(sum))
        THEN [tag |-> "panic", limbs |-> Zero64]
        ELSE [tag |-> "i64", limbs |-> Low64(sum)]

\* ---------------------------------------------------------------- Ident
\* One record shape for the five variants: key is the RawFd / pid / signal /
\* timer id field, name the Filename's path, dur the Timer's Duration.
Filename(fd, name) == [kind |-> "Filename", key |-> fd, name |-> name, dur |-> ZeroDuration]
Fd(fd) == [kind |-> "Fd", key |-> fd, name |-> "", dur |-> ZeroDuration]
Pid(pid) == [kind |-> "Pid", key |-> pid, name |-> "", dur |-> ZeroDuration]
Signal(sig) == [kind |-> "Signal", key |-> sig, name |-> "", dur |-> ZeroDuration]
Timer(id, dur) == [kind |-> "Timer", key |-> id, name |-> "", dur |-> dur]

as_usize(ident) == ident.key

\* impl PartialEq for Ident: a Filename on the left compares paths and equals
\* nothing but a Filename; anything else on the left compares numeric keys with
\* whatever is on the right.
IdentEq(self, other) ==
  IF self.kind = "Filename"
    THEN other.kind = "Filename" /\ self.name = other.name
    ELSE as_usize(self) = as_usize(other)

\* -------------------------------------------------------------- Watched
Watched(filter, flags, ident) == [filter |-> filter, flags |-> flags, ident |-> ident]

\* Mutant of WatchedEq: the identifier alone decides equality.
WatchedEq_ident_only(self, other) == IdentEq(self.ident, other.ident)

\* #[derive(PartialEq)] on Watched: field by field.
WatchedEq(self, other) ==
  /\ self.filter = other.filter
  /\ self.flags = other.flags
  /\ IdentEq(self.ident, other.ident)

\* impl Hash for Watched: the identifier's numeric key alone.
WatchedHash(w) == as_usize(w.ident)

VARIABLES
  watched,      \* Watcher.watched: the HashSet<Watched>
  started,      \* Watcher.started
  clear,        \* Watcher.opts.clear
  phase,        \* "alive", "dropped" (after Drop) or "panicked"
  knotes,       \* the kernel queue's registrations: [key, filter]
  pending,      \* kernel event records ready on the queue
  openFds,      \* descriptors open in the process
  closes,       \* per descriptor: close calls since it was last opened
  queueCloses,  \* close calls on the kernel queue handle
  handed,       \* history: identifiers the caller has handed over with add_*
  lastCall,     \* history: the last Watcher call and what it returned
  steps,        \* the number of steps taken so far
  input,        \* the argument of a conversion or decoding applied on its own
  output        \* and its result

vars == <<watched, started, clear, phase, knotes, pending, openFds, closes,
          queueCloses, handed, lastCall, steps, input, output>>

\* Every step of a run of the watcher counts towards MaxSteps.
Tick == steps < MaxSteps /\ steps' = steps + 1 /\ UNCHANGED <<input, output>>

\* Option<Duration>
None == [some |-> FALSE, d |-> ZeroDuration]
Some(d) == [some |-> TRUE, d |-> d]
Timeouts == {None} \cup {Some(d) : d \in Durations}

\* Option<Event>::None in the history record.
NoEvent == [ident |-> Fd(0), data |-> [tag |-> "NoEvent", n |-> 0, sub |-> ""]]

\* The history record of one call: its operation, what it returned, the kernel
\* call it made (kernel: "none", "ok" or "fail"), the change records that call
\* submitted (batch), the arguments of a remove_* call (args), the form of kernel wait it
\* issued (wait: "no_wait", "timed" or "blocking", with the timespec ts of a
\* timed wait), and the Event it returned.
Call(op, ret, kernel) ==
  [op |-> op, ret |-> ret, kernel |-> kernel, batch |-> <<>>, args |-> <<>>,
   wait |-> "no_wait", ts |-> ZeroDuration, event |-> NoEvent]

\* The call, with the number and the filter a remove_* call was given.
WithArgs(call, key, filter) == [call EXCEPT !.args = <<key, filter>>]

\* The call, with the change records it submitted to the kernel queue in its one
\* kernel call.
Submitted(call, batch) == [call EXCEPT !.batch = batch]

\* No conversion or decoding applied on its own.
NoInput == [fn |-> "none"]
NoOutput == [tag |-> "none"]

\* Watcher::new: an empty set, not started, clear on.
NewWatcher ==
  /\ watched = {}
  /\ started = FALSE
  /\ clear = TRUE
  /\ phase = "alive"
  /\ knotes = {}
  /\ pending = {}
  /\ openFds = CallerFds
  /\ closes = [fd \in Fds |-> 0]
  /\ queueCloses = 0
  /\ handed = {}
  /\ lastCall = Call("new", "ok", "ok")
  /\ steps = 0

Init == NewWatcher /\ input = NoInput /\ output = NoOutput

\* HashSet::contains(&watch): an entry is found when its hash leads to it and
\* the query equals it (query on the left). Two different hashes lead to the same
\* entry only when they collide in the table (collide), which the per-process
\* random hasher decides.
contains(set, watch, collide) ==
  \E e \in set :
    /\ WatchedHash(e) = WatchedHash(watch) \/ collide
    /\ WatchedEq(watch, e)

\* if !self.watched.contains(&watch) { self.watched.insert(watch); }
insert_if_absent(set, watch, collide) ==
  IF contains(set, watch, collide) THEN set ELSE set \cup {watch}

\* The history of what the caller handed over: descriptors and process ids.
Handed(ident) ==
  IF ident.kind \in {"Fd", "Pid"} THEN {[kind |-> ident.kind, key |-> ident.key]} ELSE {}

add_pid(pid, filter, flags, collide) ==
  LET watch == Watched(filter, flags, Pid(pid)) IN
  /\ phase = "alive"
  /\ Cardinality(watched) < MaxWatched
  /\ watched' = insert_if_absent(watched, watch, collide)
  /\ handed' = handed \cup Handed(watch.ident)
  /\ lastCall' = Call("add_pid", "unit", "none")
  /\ UNCHANGED <<started, clear, phase, knotes, pending, openFds, closes, queueCloses>>

\* Mutant of add_fd: on a started watcher the new entry is registered with the
\* kernel queue at once.
add_fd_registers(fd, filter, flags, collide) ==
  /\ phase = "alive"
  /\ Cardinality(watched) < MaxWatched
  /\ watched' = insert_if_absent(watched, Watched(filter, flags, Fd(fd)), collide)
  /\ handed' = handed \cup Handed(Fd(fd))
  /\ knotes' = IF started THEN knotes \cup {[key |-> fd, filter |-> filter]} ELSE knotes
  /\ lastCall' = Call("add_fd", "unit", "none")
  /\ UNCHANGED <<started, clear, phase, pending, openFds, closes, queueCloses>>

add_fd(fd, filter, flags, collide) ==
  LET watch == Watched(filter, flags, Fd(fd)) IN
  /\ phase = "alive"
  /\ Cardinality(watched) < MaxWatched
  /\ watched' = insert_if_absent(watched, watch, collide)
  /\ handed' = handed \cup Handed(watch.ident)
  /\ lastCall' = Call("add_fd", "unit", "none")
  /\ UNCHANGED <<started, clear, phase, knotes, pending, openFds, closes, queueCloses>>

\* add_file(file, ..) is add_fd(file.as_raw_fd(), ..)
add_file(fd, filter, flags, collide) == add_fd(fd, filter, flags, collide)

add_timer(id, dur, collide) ==
  LET watch == Watched(EVFILT_TIMER, NOTE_FFNOP, Timer(id, dur)) IN
  /\ phase = "alive"
  /\ Cardinality(watched) < MaxWatched
  /\ watched' = insert_if_absent(watched, watch, collide)
  /\ handed' = handed \cup Handed(watch.ident)
  /\ lastCall' = Call("add_timer", "unit", "none")
  /\ UNCHANGED <<started, clear, phase, knotes, pending, openFds, closes, queueCloses>>

\* File::open returns the lowest descriptor the process has free.
FreeFds == Fds \ openFds
LowestFree == CHOOSE fd \in FreeFds : \A g \in FreeFds : fd <= g

\* add_filename: File::open(filename)? first; the Watched owns the File. When the
\* entry is found in the set the new Watched, and its File, is dropped at the end
\* of the call, which closes the descriptor just opened.
add_filename(filename, filter, flags, openOk, collide) ==
  /\ phase = "alive"
  /\ Cardinality(watched) < MaxWatched
  /\ IF ~openOk \/ FreeFds = {}
       THEN /\ lastCall' = Call("add_filename", "err", "none")
            /\ UNCHANGED <<watched, openFds, closes, handed>>
       ELSE LET fd == LowestFree
                watch == Watched(filter, flags, Filename(fd, filename))
            IN  /\ lastCall' = Call("add_filename", "ok", "none")
                /\ IF contains(watched, watch, collide)
                     THEN /\ closes' = [closes EXCEPT ![fd] = 1]
                          /\ UNCHANGED <<watched, openFds, handed>>
                     ELSE /\ watched' = watched \cup {watch}
                          /\ openFds' = openFds \cup {fd}
                          /\ closes' = [closes EXCEPT ![fd] = 0]
                          /\ handed' = handed \cup Handed(watch.ident)
  /\ UNCHANGED <<started, clear, phase, knotes, pending, queueCloses>>

disable_clears ==
  /\ phase = "alive"
  /\ clear' = FALSE
  /\ lastCall' = Call("disable_clears", "unit", "none")
  /\ UNCHANGED <<watched, started, phase, knotes, pending, openFds, closes,
                 queueCloses, handed>>

\* --------------------------------------------------------------- kernel
\* A registration of the kernel queue is named by (ident, filter).
Knote(key, filter) == [key |-> key, filter |-> filter]

\* delete_kevents: one EV_DELETE record for (ident.as_usize(), filter). The
\* kernel call fails when the queue has no such registration (ENOENT) or for a
\* reason of its own (kok = FALSE); -1 => Err, anything else => Ok.
delete_ok(ident, filter, kok) == kok /\ Knote(as_usize(ident), filter) \in knotes

\* kevent::new(ident.as_usize(), filter, EV_DELETE, FilterFlag::empty(), 0)
delete_kev(ident, filter) ==
  [ident |-> as_usize(ident), filter |-> filter, flags |-> {"EV_DELETE"},
   fflags |-> {}, data |-> Zero64]

delete_kevents(ident, filter, kok) ==
  IF delete_ok(ident, filter, kok)
    THEN /\ knotes' = knotes \ {Knote(as_usize(ident), filter)}
         /\ pending' = {ev \in pending :
                          Knote(ev.ident, ev.filter) # Knote(as_usize(ident), filter)}
    ELSE UNCHANGED <<knotes, pending>>

\* self.watched.retain(|w| w.ident != ident): the stored identifier is on the left.
retain_ne(set, ident) == {w \in set : ~IdentEq(w.ident, ident)}

\* Mutant of remove_result: the kernel call's failure is not looked at.
remove_result_ignores_failure(prev_len, len, ok) ==
  IF len # prev_len THEN "ok_true" ELSE "ok_false"

remove_result(prev_len, len, ok) ==
  IF ok THEN (IF len # prev_len THEN "ok_true" ELSE "ok_false") ELSE "err"

remove_pid(pid, filter, kok) ==
  /\ phase = "alive"
  /\ IF watched = {}
       THEN /\ lastCall' = WithArgs(Call("remove_pid", "ok_false", "none"), pid, filter)
            /\ UNCHANGED <<watched, knotes, pending>>
       ELSE LET kept == retain_ne(watched, Pid(pid))
                ok == delete_ok(Pid(pid), filter, kok)
            IN  /\ watched' = kept
                /\ delete_kevents(Pid(pid), filter, kok)
                /\ lastCall' = WithArgs(Submitted(Call("remove_pid", remove_result(Cardinality(watched), Cardinality(kept), ok),
                                                       IF ok THEN "ok" ELSE "fail"),
                                                  <<delete_kev(Pid(pid), filter)>>),
                                        pid, filter)
  /\ UNCHANGED <<started, clear, phase, openFds, closes, queueCloses, handed>>

\* Mutant of remove_fd: the kernel delete is issued only when an entry matched.
remove_fd_delete_if_matched(fd, filter, kok) ==
  /\ phase = "alive"
  /\ IF retain_ne(watched, Fd(fd)) = watched
       THEN /\ lastCall' = WithArgs(Call("remove_fd", "ok_false", "none"), fd, filter)
            /\ UNCHANGED <<watched, knotes, pending>>
       ELSE /\ watched' = retain_ne(watched, Fd(fd))
            /\ delete_kevents(Fd(fd), filter, kok)
            /\ lastCall' = WithArgs(Submitted(Call("remove_fd", IF delete_ok(Fd(fd), filter, kok) THEN "ok_true" ELSE "err",
                                                   IF delete_ok(Fd(fd), filter, kok) THEN "ok" ELSE "fail"),
                                              <<delete_kev(Fd(fd), filter)>>),
                                    fd, filter)
  /\ UNCHANGED <<started, clear, phase, openFds, closes, queueCloses, handed>>

remove_fd(fd, filter, kok) ==
  /\ phase = "alive"
  /\ IF watched = {}
       THEN /\ lastCall' = WithArgs(Call("remove_fd", "ok_false", "none"), fd, filter)
            /\ UNCHANGED <<watched, knotes, pending>>
       ELSE LET kept == retain_ne(watched, Fd(fd))
                ok == delete_ok(Fd(fd), filter, kok)
            IN  /\ watched' = kept
                /\ delete_kevents(Fd(fd), filter, kok)
                /\ lastCall' = WithArgs(Submitted(Call("remove_fd", remove_result(Cardinality(watched), Cardinality(kept), ok),
                                                       IF ok THEN "ok" ELSE "fail"),
                                                  <<delete_kev(Fd(fd), filter)>>),
                                        fd, filter)
  /\ UNCHANGED <<started, clear, phase, openFds, closes, queueCloses, handed>>

\* remove_file(file, filter) is remove_fd(file.as_raw_fd(), filter)
remove_file(fd, filter, kok) == remove_fd(fd, filter, kok)

\* Mutant of WatchBatch: the Timer entries are left out of the batch.
WatchBatch_no_timers ==
  {Knote(as_usize(w.ident), w.filter) : w \in {x \in watched : x.ident.kind # "Timer"}}

\* watch: one EV_ADD record per entry of the set, submitted as one batch.
\* started is set before the kernel's answer is looked at. A failing batch has
\* registered the records before the failing one (part: any proper subset, the
\* set's iteration order being arbitrary).
WatchBatch == {Knote(as_usize(w.ident), w.filter) : w \in watched}

\* Mutant of watch_kev: EV_CLEAR whatever opts.clear says.
watch_kev_always_clear(w, clr, checks) ==
  [ident |-> as_usize(w.ident), filter |-> w.filter,
   flags |-> {"EV_ADD", "EV_CLEAR"},
   fflags |-> w.flags,
   data |-> IF w.ident.kind = "Timer" THEN timer_data(w.ident.dur, checks).limbs ELSE Zero64]

\* The record watch builds for one entry: EV_ADD, with EV_CLEAR when opts.clear,
\* the entry's filter and flags, and the period in milliseconds for a Timer.
watch_kev(w, clr, checks) ==
  [ident |-> as_usize(w.ident), filter |-> w.filter,
   flags |-> IF clr THEN {"EV_ADD", "EV_CLEAR"} ELSE {"EV_ADD"},
   fflags |-> w.flags,
   data |-> IF w.ident.kind = "Timer" THEN timer_data(w.ident.dur, checks).limbs ELSE Zero64]

\* The period of some Timer entry overflows, and the build checks for it.
kevs_panic(checks) ==
  \E w \in watched : w.ident.kind = "Timer" /\ timer_data(w.ident.dur, checks).tag = "panic"

\* Mutant of watch: started says whether this call's registration succeeded.
watch_started_by_result(kok, part) ==
  /\ phase = "alive"
  /\ ~kevs_panic(TRUE)
  /\ IF kok
       THEN /\ part = WatchBatch
            /\ lastCall' = Submitted(Call("watch", "ok", "ok"),
                                     [w \in watched |-> watch_kev(w, clear, TRUE)])
       ELSE /\ part \subseteq WatchBatch
            /\ part # WatchBatch \/ WatchBatch = {}
            /\ lastCall' = Submitted(Call("watch", "err", "fail"),
                                     [w \in watched |-> watch_kev(w, clear, TRUE)])
  /\ knotes' = knotes \cup part
  /\ started' = kok
  /\ UNCHANGED <<watched, clear, phase, pending, openFds, closes, queueCloses, handed>>

watch(kok, part) ==
  /\ phase = "alive"
  /\ \E checks \in BOOLEAN :
       IF kevs_panic(checks)
         THEN /\ phase' = "panicked"
              /\ knotes' = {}
              /\ pending' = {}
              /\ lastCall' = Call("watch", "panic", "none")
              /\ UNCHANGED started
         ELSE LET kevs == [w \in watched |-> watch_kev(w, clear, checks)] IN
              /\ IF kok
                   THEN /\ part = WatchBatch
                        /\ knotes' = knotes \cup WatchBatch
                        /\ lastCall' = Submitted(Call("watch", "ok", "ok"), kevs)
                   ELSE /\ part \subseteq WatchBatch
                        /\ part # WatchBatch \/ WatchBatch = {}
                        /\ knotes' = knotes \cup part
                        /\ lastCall' = Submitted(Call("watch", "err", "fail"), kevs)
              /\ started' = TRUE
              /\ UNCHANGED <<phase, pending>>
  /\ UNCHANGED <<watched, clear, openFds, closes, queueCloses, handed>>

\* Drop for Watcher: libc::close(queue), then libc::close(fd) for every Fd and
\* Filename entry; after drop() returns the fields are dropped, and with them the
\* File every Filename entry owns, which closes its descriptor.
OwnsFd(w) == w.ident.kind \in {"Fd", "Filename"}
drop_closes(fd) ==
  Cardinality({w \in watched : OwnsFd(w) /\ w.ident.key = fd})
    + Cardinality({w \in watched : w.ident.kind = "Filename" /\ w.ident.key = fd})

drop ==
  /\ phase = "alive"
  /\ phase' = "dropped"
  /\ queueCloses' = queueCloses + 1
  /\ closes' = [fd \in Fds |-> closes[fd] + drop_closes(fd)]
  /\ openFds' = openFds \ {w.ident.key : w \in {x \in watched : OwnsFd(x)}}
  /\ knotes' = {}
  /\ pending' = {}
  /\ lastCall' = Call("drop", "unit", "none")
  /\ UNCHANGED <<watched, started, clear, handed>>

\* ---------------------------------------------------------------- events
\* A kevent record as the wait call fills it in.
Kev(ident, filter, fflags, data) ==
  [ident |-> ident, filter |-> filter, fflags |-> fflags, data |-> data]

\* get_event's record before the wait: kevent::new(0, EVFILT_SYSCOUNT, empty, empty, 0).
\* A wait that returns -1 has written nothing to it.
InitKev == Kev(0, EVFILT_SYSCOUNT, {}, 0)

\* What a registration can report: the flag sets and data words the kernel may
\* deliver for its filter.
KernelFlags(filter) ==
  CASE filter = EVFILT_PROC -> {{"NOTE_FORK", "NOTE_EXEC"}}
    [] filter = EVFILT_VNODE -> {{"NOTE_WRITE"}}
    [] OTHER -> {{}}
KernelData(filter) == {1}

\* The kernel marks a registered source ready.
KernelReady(kn, fflags, data) ==
  /\ phase = "alive"
  /\ kn \in knotes
  /\ Cardinality(pending) < MaxPending
  /\ \A ev \in pending : Knote(ev.ident, ev.filter) # kn
  /\ pending' = pending \cup {Kev(kn.key, kn.filter, fflags, data)}
  /\ UNCHANGED <<watched, started, clear, phase, knotes, openFds, closes,
                 queueCloses, handed, lastCall>>

EvData(tag, n, sub) == [tag |-> tag, n |-> n, sub |-> sub]
PanicData == EvData("panic", 0, "")

\* os::vnode::handle_vnode_extras: the platform's own vnode flags, and an abort
\* when none of them is set.
handle_vnode_extras(fflags) ==
  CASE "NOTE_OPEN" \in fflags -> EvData("Vnode", 0, "Open")
    [] "NOTE_CLOSE_WRITE" \in fflags -> EvData("Vnode", 0, "CloseWrite")
    [] "NOTE_CLOSE" \in fflags -> EvData("Vnode", 0, "Close")
    [] OTHER -> PanicData

\* Mutant of proc_inner: NOTE_FORK is looked at before NOTE_EXIT.
proc_inner_fork_first(ev) ==
  CASE "NOTE_FORK" \in ev.fflags -> EvData("Proc", 0, "Fork")
    [] "NOTE_EXIT" \in ev.fflags -> EvData("Proc", ev.data, "Exit")
    [] "NOTE_EXEC" \in ev.fflags -> EvData("Proc", 0, "Exec")
    [] "NOTE_TRACK" \in ev.fflags -> EvData("Proc", ev.data, "Track")
    [] "NOTE_CHILD" \in ev.fflags -> EvData("Proc", ev.data, "Child")
    [] OTHER -> PanicData

\* Event::new, EVFILT_PROC: the if / else if chain over ev.fflags.contains(..).
proc_inner(ev) ==
  CASE "NOTE_EXIT" \in ev.fflags -> EvData("Proc", ev.data, "Exit")
    [] "NOTE_FORK" \in ev.fflags -> EvData("Proc", 0, "Fork")
    [] "NOTE_EXEC" \in ev.fflags -> EvData("Proc", 0, "Exec")
    [] "NOTE_TRACK" \in ev.fflags -> EvData("Proc", ev.data, "Track")
    [] "NOTE_CHILD" \in ev.fflags -> EvData("Proc", ev.data, "Child")
    [] OTHER -> PanicData

\* Event::new, EVFILT_VNODE: the same chain, ending in the platform's extras.
vnode_inner(ev) ==
  CASE "NOTE_DELETE" \in ev.fflags -> EvData("Vnode", 0, "Delete")
    [] "NOTE_WRITE" \in ev.fflags -> EvData("Vnode", 0, "Write")
    [] "NOTE_EXTEND" \in ev.fflags -> EvData("Vnode", 0, "Extend")
    [] "NOTE_ATTRIB" \in ev.fflags -> EvData("Vnode", 0, "Attrib")
    [] "NOTE_LINK" \in ev.fflags -> EvData("Vnode", 0, "Link")
    [] "NOTE_RENAME" \in ev.fflags -> EvData("Vnode", 0, "Rename")
    [] "NOTE_REVOKE" \in ev.fflags -> EvData("Vnode", 0, "Revoke")
    [] OTHER -> handle_vnode_extras(ev.fflags)

\* Event::new, first match: the EventData for the record's filter and flags.
event_data(ev) ==
  CASE ev.filter = EVFILT_READ -> EvData("ReadReady", ev.data, "")
    [] ev.filter = EVFILT_WRITE -> EvData("WriteReady", ev.data, "")
    [] ev.filter = EVFILT_SIGNAL -> EvData("Signal", ev.data, "")
    [] ev.filter = EVFILT_TIMER -> EvData("Timer", ev.data, "")
    [] ev.filter = EVFILT_PROC -> proc_inner(ev)
    [] ev.filter = EVFILT_VNODE -> vnode_inner(ev)
    [] OTHER -> PanicData

\* find_file_ident(watcher, fd): the Fd or Filename identifiers of the set whose
\* descriptor is fd; the lookup returns one of them, or None when there is none.
find_file_ident(fd) ==
  {w.ident : w \in {x \in watched : OwnsFd(x) /\ x.ident.key = fd}}

\* Event::new and Event::from_error, second match: the identifiers the record
\* resolves to; the empty set is the unwrap() of None or the panic!("not supported").
event_ident(ev) ==
  CASE ev.filter \in {EVFILT_READ, EVFILT_WRITE, EVFILT_VNODE} -> find_file_ident(ev.ident)
    [] ev.filter = EVFILT_SIGNAL -> {Signal(ev.ident)}
    [] ev.filter = EVFILT_TIMER -> {Timer(ev.ident, ZeroDuration)}
    [] ev.filter = EVFILT_PROC -> {Pid(ev.ident)}
    [] OTHER -> {}

\* Mutant of Event_new: every record is decoded as write readiness.
Event_new_write_ready(ev) ==
  {[ident |-> i, data |-> EvData("WriteReady", ev.data, "")] : i \in event_ident(ev)}

\* Event::new(ev, watcher): the events it can build; none when it panics.
Event_new(ev) ==
  IF event_data(ev) = PanicData THEN {}
  ELSE {[ident |-> i, data |-> event_data(ev)] : i \in event_ident(ev)}

\* Event::from_error(ev, watcher): the data is Error(last_os_error()).
Event_from_error(ev) ==
  {[ident |-> i, data |-> EvData("Error", 0, "")] : i \in event_ident(ev)}

\* ------------------------------------------------------------ retrieval
\* duration_to_timespec: tv_sec = d.as_secs() as time_t is negative exactly when
\* the u64's top bit is set, and that panics; tv_nsec < 10^9 is never negative.
tv_sec_is_negative(d) == IsNegative64(as_secs(d))
duration_to_timespec(d) == [tv_sec |-> d.secs, tv_nsec |-> d.nanos]

WaitCall(op, wait, ts, ret, kernel, event) ==
  [Call(op, ret, kernel) EXCEPT !.wait = wait, !.ts = ts, !.event = event]

\* A panic!/unwrap() in a call ends the process, and the kernel queue with it.
panicked(call) ==
  /\ phase' = "panicked"
  /\ knotes' = {}
  /\ pending' = {}
  /\ lastCall' = call

\* get_event(watcher, timeout), called by op.
\* Some(ts): the timed wait; None: the wait with a null timeout, which returns
\* only with an event or an error. -1 => from_error, 0 => None, else Event::new.
get_event(op, timeout, kok) ==
  LET wait == IF timeout.some THEN "timed" ELSE "blocking"
      ts == timeout.d
  IN
  IF timeout.some /\ tv_sec_is_negative(ts)
    THEN panicked(WaitCall(op, "no_wait", ZeroDuration, "panic", "none", NoEvent))
    ELSE
      \/ /\ ~kok
         /\ IF Event_from_error(InitKev) = {}
              THEN panicked(WaitCall(op, wait, ts, "panic", "fail", NoEvent))
              ELSE /\ UNCHANGED <<phase, knotes, pending>>
                   /\ \E e \in Event_from_error(InitKev) :
                        lastCall' = WaitCall(op, wait, ts, "event", "fail", e)
      \/ /\ kok
         /\ pending = {}
         /\ timeout.some
         /\ UNCHANGED <<phase, knotes, pending>>
         /\ lastCall' = WaitCall(op, wait, ts, "none", "ok", NoEvent)
      \/ /\ kok
         /\ \E ev \in pending :
              IF Event_new(ev) = {}
                THEN panicked(WaitCall(op, wait, ts, "panic", "ok", NoEvent))
                ELSE /\ UNCHANGED <<phase, knotes>>
                     /\ pending' = pending \ {ev}
                     /\ \E e \in Event_new(ev) :
                          lastCall' = WaitCall(op, wait, ts, "event", "ok", e)

\* Mutant of poll_as: None is passed on to get_event as it is.
poll_as_blocking(op, timeout, kok) == get_event(op, timeout, kok)

\* poll(timeout): Some(t) => get_event(Some(t)); None => get_event(Some(Duration::new(0, 0)))
poll_as(op, timeout, kok) ==
  IF timeout.some
    THEN get_event(op, timeout, kok)
    ELSE get_event(op, Some(ZeroDuration), kok)

poll(timeout, kok) ==
  /\ phase = "alive"
  /\ poll_as("poll", timeout, kok)
  /\ UNCHANGED <<watched, started, clear, openFds, closes, queueCloses, handed>>

\* Mutant of poll_forever: every timeout, None too, goes to self.poll.
poll_forever_always_poll(timeout, kok) ==
  /\ phase = "alive"
  /\ poll_as("poll_forever", timeout, kok)
  /\ UNCHANGED <<watched, started, clear, openFds, closes, queueCloses, handed>>

\* poll_forever(timeout): Some => self.poll(timeout); None => get_event(None)
poll_forever(timeout, kok) ==
  /\ phase = "alive"
  /\ IF timeout.some
       THEN poll_as("poll_forever", timeout, kok)
       ELSE get_event("poll_forever", None, kok)
  /\ UNCHANGED <<watched, started, clear, openFds, closes, queueCloses, handed>>

\* Mutant of next: no look at the started flag.
next_unchecked(kok) ==
  /\ phase = "alive"
  /\ get_event("next", None, kok)
  /\ UNCHANGED <<watched, started, clear, openFds, closes, queueCloses, handed>>

\* EventIter::next: None when the watcher is not started, else get_event(None).
next(kok) ==
  /\ phase = "alive"
  /\ IF ~started
       THEN /\ lastCall' = WaitCall("next", "no_wait", ZeroDuration, "none", "none", NoEvent)
            /\ UNCHANGED <<phase, knotes, pending>>
       ELSE get_event("next", None, kok)
  /\ UNCHANGED <<watched, started, clear, openFds, closes, queueCloses, handed>>

\* ------------------------------------------------------------------ Next
Next ==
  \/ Tick /\ \E pid \in Pids, f \in PidFilters, fl \in PidFlags, c \in BOOLEAN : add_pid(pid, f, fl, c)
  \/ Tick /\ \E fd \in CallerFds, f \in FdFilters, fl \in FdFlags, c \in BOOLEAN : add_fd(fd, f, fl, c)
  \/ Tick /\ \E fd \in CallerFds, f \in FdFilters, fl \in FdFlags, c \in BOOLEAN : add_file(fd, f, fl, c)
  \/ Tick /\ \E id \in TimerIds, d \in TimerDurations, c \in BOOLEAN : add_timer(id, d, c)
  \/ Tick /\ \E n \in Paths, f \in FileFilters, fl \in FileFlags, ok \in BOOLEAN, c \in BOOLEAN :
         add_filename(n, f, fl, ok, c)
  \/ Tick /\ disable_clears
  \/ Tick /\ \E pid \in Pids, f \in RemoveFilters, kok \in BOOLEAN : remove_pid(pid, f, kok)
  \/ Tick /\ \E fd \in Fds, f \in RemoveFilters, kok \in BOOLEAN : remove_fd(fd, f, kok)
  \/ Tick /\ \E fd \in Fds, f \in RemoveFilters, kok \in BOOLEAN : remove_file(fd, f, kok)
  \/ Tick /\ \E kok \in BOOLEAN, part \in SUBSET WatchBatch : watch(kok, part)
  \/ Tick /\ \E t \in Timeouts, kok \in BOOLEAN : poll(t, kok)
  \/ Tick /\ \E t \in Timeouts, kok \in BOOLEAN : poll_forever(t, kok)
  \/ Tick /\ \E kok \in BOOLEAN : next(kok)
  \/ Tick /\ \E kn \in knotes : \E fl \in KernelFlags(kn.filter), d \in KernelData(kn.filter) :
         KernelReady(kn, fl, d)
  \/ Tick /\ drop

Spec == Init /\ [][Next]_vars

\* ------------------------------------- conversions and decoding, on their own
\* The durations the conversions are applied to: seconds below 2^31, seconds
\* whose product with 1000 has the top bit set (hi = 33), seconds with the top
\* bit set themselves (hi >= 32768).
FnDurations ==
  {Duration(hi, secs, nanos) :
     hi \in {0, 33, 32768, 65535}, secs \in {0, 1, 7, 2147483647},
     nanos \in {0, 999999, 1000000, 50000000, 999999999}}

\* The NOTE_ flags a process record and a filesystem-node record may carry.
ProcNotes == {"NOTE_EXIT", "NOTE_FORK", "NOTE_EXEC", "NOTE_TRACK", "NOTE_CHILD", "NOTE_TRACKERR"}
VnodeNotes == {"NOTE_DELETE", "NOTE_WRITE", "NOTE_EXTEND", "NOTE_ATTRIB", "NOTE_LINK",
               "NOTE_RENAME", "NOTE_REVOKE", "NOTE_OPEN"}

FnInputs ==
  {[fn |-> "timer_data", dur |-> d, checks |-> c] : d \in FnDurations, c \in BOOLEAN}
    \cup {[fn |-> "duration_to_timespec", dur |-> d] : d \in FnDurations}
    \cup {[fn |-> "event_data", ev |-> Kev(3, EVFILT_PROC, fl, 1)] : fl \in SUBSET ProcNotes}
    \cup {[fn |-> "event_data", ev |-> Kev(3, EVFILT_VNODE, fl, 1)] : fl \in SUBSET VnodeNotes}

FnInit == NewWatcher /\ input \in FnInputs /\ output = NoOutput

Watcher == <<watched, started, clear, phase, knotes, pending, openFds, closes,
             queueCloses, handed, lastCall, steps>>

apply_timer_data ==
  /\ input.fn = "timer_data"
  /\ output = NoOutput
  /\ output' = timer_data(input.dur, input.checks)
  /\ UNCHANGED <<Watcher, input>>

apply_duration_to_timespec ==
  /\ input.fn = "duration_to_timespec"
  /\ output = NoOutput
  /\ output' = IF tv_sec_is_negative(input.dur)
                  THEN [tag |-> "panic"]
                  ELSE [tag |-> "timespec", ts |-> duration_to_timespec(input.dur)]
  /\ UNCHANGED <<Watcher, input>>

apply_event_data ==
  /\ input.fn = "event_data"
  /\ output = NoOutput
  /\ output' = event_data(input.ev)
  /\ UNCHANGED <<Watcher, input>>

FnNext == apply_timer_data \/ apply_duration_to_timespec \/ apply_event_data

FnSpec == FnInit /\ [][FnNext]_vars

\* ------------------------------------------------------- a polling loop
\* A caller that registers sources, calls watch() and then calls
\* poll_forever(None) again and again, for as long as it likes: no step budget,
\* no removal, no drop, and kernel waits that do not fail.
Unbudgeted == UNCHANGED <<steps, input, output>>

\* The kernel timer id fires.
TimerFires(id) ==
  \E d \in KernelData(EVFILT_TIMER) : KernelReady(Knote(id, EVFILT_TIMER), {}, d)

\* poll_forever(None) returns the pending Timer record.
TakesTimerEvent ==
  poll_forever(None, TRUE) /\ lastCall'.event.data.tag = "Timer"

LoopNext ==
  \/ Unbudgeted /\ \E pid \in Pids, f \in PidFilters, fl \in PidFlags, c \in BOOLEAN :
                      add_pid(pid, f, fl, c)
  \/ Unbudgeted /\ \E fd \in CallerFds, f \in FdFilters, fl \in FdFlags, c \in BOOLEAN :
                      add_fd(fd, f, fl, c)
  \/ Unbudgeted /\ \E id \in TimerIds, d \in TimerDurations, c \in BOOLEAN : add_timer(id, d, c)
  \/ Unbudgeted /\ disable_clears
  \/ Unbudgeted /\ \E kok \in BOOLEAN, part \in SUBSET WatchBatch : watch(kok, part)
  \/ Unbudgeted /\ \E kn \in knotes : \E fl \in KernelFlags(kn.filter), d \in KernelData(kn.filter) :
                      KernelReady(kn, fl, d)
  \/ Unbudgeted /\ poll_forever(None, TRUE)

\* Fairness: a registered kernel timer keeps firing (strong: the model's bound on
\* pending records disables it from time to time), the caller keeps calling
\* poll_forever(None), and the queue hands a pending record over in its turn.
LoopSpec ==
  /\ Init
  /\ [][LoopNext]_vars
  /\ \A id \in TimerIds : SF_vars(Unbudgeted /\ TimerFires(id))
  /\ WF_vars(Unbudgeted /\ poll_forever(None, TRUE))
  /\ WF_vars(Unbudgeted /\ TakesTimerEvent)

\* ================================================================ claims

\* C1: when a Watcher is dropped, every descriptor of a Filename or Fd entry
\* still in the registration set has been closed exactly once, and the kernel
\* queue handle has been closed exactly once.
C1_DropClosesOnce ==
  phase = "dropped" =>
    /\ queueCloses = 1
    /\ \A w \in watched : OwnsFd(w) => closes[w.ident.key] = 1

\* C2: add_filename with a path (and filter and flags) that a Filename entry of
\* the set already has leaves the set with the size it had, although the call
\* opens the file again and gets another descriptor.
C2_AddFilenameTwice ==
  [][\A n \in Paths, f \in FileFilters, fl \in FileFlags, ok \in BOOLEAN, c \in BOOLEAN :
       (/\ add_filename(n, f, fl, ok, c)
        /\ \E w \in watched : w = Watched(f, fl, Filename(w.ident.key, n)))
       => Cardinality(watched') = Cardinality(watched)]_vars

\* C3, as claimed: the registration set holds at most one entry per identifier
\* numeric key.
C3_OneEntryPerKey ==
  \A a, b \in watched : as_usize(a.ident) = as_usize(b.ident) => a = b

\* An entry with this key, this filter and these flags.
SameSlot(e, key, filter, flags) ==
  as_usize(e.ident) = key /\ e.filter = filter /\ e.flags = flags

\* C3, amended: the set holds at most one Fd/Pid/Signal/Timer entry per (key,
\* filter, flags), not per key: add_fd and add_pid leave the set alone exactly
\* when it has an entry with the same key, the same filter and the same flags,
\* and insert a further entry under a key it already has otherwise.
C3_OneEntryPerKeyFilterFlags ==
  /\ [](\A a, b \in watched :
          (/\ a.ident.kind # "Filename"
           /\ b.ident.kind # "Filename"
           /\ SameSlot(a, as_usize(b.ident), b.filter, b.flags)) => a = b)
  /\ [][\A fd \in CallerFds, f \in FdFilters, fl \in FdFlags, c \in BOOLEAN :
          add_fd(fd, f, fl, c) =>
            /\ (watched' = watched) <=> (\E e \in watched : SameSlot(e, fd, f, fl))
            /\ watched' \in {watched, watched \cup {Watched(f, fl, Fd(fd))}}]_vars
  /\ [][\A pid \in Pids, f \in PidFilters, fl \in PidFlags, c \in BOOLEAN :
          add_pid(pid, f, fl, c) =>
            /\ (watched' = watched) <=> (\E e \in watched : SameSlot(e, pid, f, fl))
            /\ watched' \in {watched, watched \cup {Watched(f, fl, Pid(pid))}}]_vars

\* C3 witness: an add_fd or add_pid has put a second entry under a key the set
\* already had, with another filter or other flags.
C3_Witness ==
  /\ lastCall.op \in {"add_fd", "add_pid"}
  /\ \E a, b \in watched :
       /\ a # b
       /\ as_usize(a.ident) = as_usize(b.ident)
       /\ a.filter # b.filter \/ a.flags # b.flags

\* C4: remove_fd(fd, _) with no Fd(fd) ever added, and remove_pid(pid, _) with no
\* Pid(pid) ever added, return Ok(false) whenever the kernel removal call does not
\* fail.
C4_RemoveNeverAdded ==
  [][/\ \A fd \in Fds, f \in RemoveFilters, kok \in BOOLEAN :
          (/\ remove_fd(fd, f, kok)
           /\ [kind |-> "Fd", key |-> fd] \notin handed
           /\ lastCall'.kernel # "fail") => lastCall'.ret = "ok_false"
     /\ \A pid \in Pids, f \in RemoveFilters, kok \in BOOLEAN :
          (/\ remove_pid(pid, f, kok)
           /\ [kind |-> "Pid", key |-> pid] \notin handed
           /\ lastCall'.kernel # "fail") => lastCall'.ret = "ok_false"]_vars

\* C5: the started flag becomes true only by a watch() call that succeeded; a
\* watch() call whose kernel registration fails returns the error and leaves the
\* flag as it was.
C5_StartedOnlyBySuccessfulWatch ==
  [][/\ (started' /\ ~started) => (lastCall'.op = "watch" /\ lastCall'.ret = "ok")
     /\ (lastCall'.op = "watch" /\ lastCall'.kernel = "fail") =>
          (lastCall'.ret = "err" /\ started' = started)]_vars

\* C6: when the kernel wait call fails, poll, poll_forever and the iterator
\* return an event whose data is Error(last OS error); they do not abort.
C6_FailedWaitReturnsError ==
  (lastCall.op \in {"poll", "poll_forever", "next"} /\ lastCall.kernel = "fail")
    => (lastCall.ret = "event" /\ lastCall.event.data.tag = "Error")

\* C7: poll never issues the blocking form of the kernel wait: poll(Some(t))
\* waits with the timeout t, poll(None) with a zero timeout, and a poll that
\* finds no event pending returns None.
C7_PollIsBounded ==
  [][\A t \in Timeouts, kok \in BOOLEAN :
       poll(t, kok) =>
         /\ lastCall'.wait # "blocking"
         /\ lastCall'.wait = "timed" =>
              lastCall'.ts = (IF t.some THEN t.d ELSE ZeroDuration)
         /\ lastCall'.wait = "no_wait" => lastCall'.ret = "panic"
         /\ (pending = {} /\ lastCall'.kernel = "ok") => lastCall'.ret = "none"]_vars

\* C7 witness: a poll(None) has made its zero-timeout wait and returned None.
C7_Witness ==
  /\ lastCall.op = "poll"
  /\ lastCall.wait = "timed"
  /\ lastCall.ts = ZeroDuration
  /\ lastCall.ret = "none"
  /\ knotes # {}

\* C8: poll_forever(None) never returns None: it waits in the blocking form and
\* returns one event, taken from the events that were pending; a poll or
\* poll_forever call returns None only after a wait with a timeout.
C8_PollForeverReturnsAnEvent ==
  [][/\ \A kok \in BOOLEAN :
          poll_forever(None, kok) =>
            /\ lastCall'.wait = "blocking"
            /\ lastCall'.ret \in {"event", "panic"}
            /\ lastCall'.ret = "event" =>
                 /\ pending # {}
                 /\ \E ev \in pending : pending' = pending \ {ev}
     /\ (lastCall'.op \in {"poll", "poll_forever"} /\ lastCall'.ret = "none")
          => lastCall'.wait = "timed"]_vars

\* C8 witness: a poll_forever(None) has returned an event from its blocking wait.
C8_Witness ==
  /\ lastCall.op = "poll_forever"
  /\ lastCall.wait = "blocking"
  /\ lastCall.ret = "event"

\* C9: on a watcher whose started flag is false the iterator's next() returns
\* None without a kernel wait, whatever the registration set holds; on a started
\* watcher it makes the blocking wait.
C9_NextChecksStarted ==
  [][\A kok \in BOOLEAN :
       next(kok) =>
         IF ~started
           THEN /\ lastCall'.ret = "none"
                /\ lastCall'.wait = "no_wait"
                /\ lastCall'.kernel = "none"
                /\ pending' = pending
           ELSE lastCall'.wait = "blocking"]_vars

\* C9 witness: next() has ended the sequence on an unstarted watcher that has
\* entries.
C9_Witness ==
  /\ lastCall.op = "next"
  /\ lastCall.ret = "none"
  /\ ~started
  /\ watched # {}

\* C10: a remove_fd/remove_file that takes an Fd entry out of the set closes its
\* descriptor, and once the watcher is dropped every descriptor handed to it has
\* been closed exactly once.
C10_HandedFdClosedOnce ==
  /\ [][\A fd \in Fds, f \in RemoveFilters, kok \in BOOLEAN :
          (/\ remove_fd(fd, f, kok) \/ remove_file(fd, f, kok)
           /\ \E w \in watched : w.ident = Fd(fd))
          => closes'[fd] = closes[fd] + 1]_vars
  /\ [](phase = "dropped" =>
          \A h \in handed : h.kind = "Fd" => closes[h.key] = 1)

\* A retrieval call: poll, poll_forever or the iterator's next.
Retrieval ==
  \/ \E t \in Timeouts, kok \in BOOLEAN : poll(t, kok) \/ poll_forever(t, kok)
  \/ \E kok \in BOOLEAN : next(kok)

\* C11: with an Fd(fd) entry for the read filter in the set and registered by
\* watch(), a retrieval whose kernel wait succeeds while the read readiness of fd
\* is the pending record returns one event and takes that record off the queue:
\* the event's identifier is an Fd/Filename entry of the set with descriptor fd,
\* and its data is ReadReady(n) with n the record's count, n >= 0.
C11_ReadReadyRoundTrip ==
  [][\A ev \in pending :
       (/\ Retrieval
        /\ pending = {ev}
        /\ ev.filter = EVFILT_READ
        /\ \E w \in watched : w.ident = Fd(ev.ident) /\ w.filter = EVFILT_READ
        /\ lastCall'.kernel = "ok")
       => /\ lastCall'.ret = "event"
          /\ pending' = {}
          /\ phase' = "alive"
          /\ lastCall'.event.data = EvData("ReadReady", ev.data, "")
          /\ ev.data >= 0
          /\ lastCall'.event.ident.key = ev.ident
          /\ \E w \in watched : OwnsFd(w) /\ w.ident = lastCall'.event.ident]_vars

\* C11 witness: the read readiness of the registered descriptor has come back as
\* a ReadReady event on Fd(3).
C11_Witness ==
  /\ lastCall.ret = "event"
  /\ lastCall.event.ident = Fd(3)
  /\ lastCall.event.data.tag = "ReadReady"
  /\ Watched(EVFILT_READ, {}, Fd(3)) \in watched
  /\ pending = {}

\* A poll_forever call has returned a Timer event with a positive count on the
\* timer with key id.
TimerEventReturned(id) ==
  /\ lastCall.op = "poll_forever"
  /\ lastCall.ret = "event"
  /\ lastCall.event.data.tag = "Timer"
  /\ lastCall.event.data.n > 0
  /\ lastCall.event.ident.kind = "Timer"
  /\ as_usize(lastCall.event.ident) = id

\* C12: after add_timer(id, period) with a positive period and a successful
\* watch(), the repeated poll_forever(None) calls eventually return an event
\* whose data is Timer(n), n > 0, and whose identifier is the timer with key id.
C12_TimerEventuallyReturned ==
  \A id \in TimerIds :
    (/\ lastCall.op = "watch"
     /\ lastCall.ret = "ok"
     /\ \E w \in watched : w.ident.kind = "Timer" /\ as_usize(w.ident) = id
                            /\ ~IsNegative64(lastCall.batch[w].data)
                            /\ lastCall.batch[w].data # Zero64)
      ~> TimerEventReturned(id)

\* C12 witness: the timer's event has come back from poll_forever(None).
C12_Witness ==
  /\ TimerEventReturned(3)
  /\ lastCall.wait = "blocking"
  /\ \E w \in watched : w.ident.kind = "Timer"

\* d.seconds * 1000 + floor(d.subsecond_nanos / 1_000_000), exactly: six limbs.
ExactMillis(d) == AddLimbs(MulLimbs(as_secs(d), 1000, 0), d.nanos \div 1000000)
\* The exact value is a non-negative i64: it is below 2^63.
FitsI64(x) == x[6] = 0 /\ x[5] = 0 /\ x[4] < Limb \div 2

\* C13: the timer period passed to the kernel is d.seconds * 1000 +
\* floor(d.subsecond_nanos / 1_000_000), a non-negative value, and the
\* conversion aborts when that value, or a timeout's seconds, would be negative
\* as the kernel's signed word; it never hands over a wrapped value.
C13_PeriodIsExactOrAborts ==
  /\ (input.fn = "timer_data" /\ output # NoOutput) =>
       IF FitsI64(ExactMillis(input.dur))
         THEN output = [tag |-> "i64", limbs |-> Low64(ExactMillis(input.dur))]
         ELSE output.tag = "panic"
  /\ (input.fn = "duration_to_timespec" /\ output # NoOutput) =>
       IF input.dur.hi >= Limb \div 2
         THEN output.tag = "panic"
         ELSE output = [tag |-> "timespec",
                        ts |-> [tv_sec |-> input.dur.secs, tv_nsec |-> input.dur.nanos]]

\* The flags of a process record and of a filesystem-node record in the order
\* they are looked at, and the sub-event of each.
ProcOrder == <<"NOTE_EXIT", "NOTE_FORK", "NOTE_EXEC", "NOTE_TRACK", "NOTE_CHILD">>
ProcSub == <<"Exit", "Fork", "Exec", "Track", "Child">>
VnodeOrder == <<"NOTE_DELETE", "NOTE_WRITE", "NOTE_EXTEND", "NOTE_ATTRIB", "NOTE_LINK",
                "NOTE_RENAME", "NOTE_REVOKE">>
VnodeSub == <<"Delete", "Write", "Extend", "Attrib", "Link", "Rename", "Revoke">>

\* The position of the first flag of order that fflags holds; 0 when none.
FirstPresent(order, fflags) ==
  IF \E i \in 1..Len(order) : order[i] \in fflags
    THEN CHOOSE i \in 1..Len(order) :
           order[i] \in fflags /\ \A j \in 1..(i - 1) : order[j] \notin fflags
    ELSE 0

\* C14: a process or filesystem-node record decodes to one sub-event, that of
\* the first flag it holds in the order exit, fork, exec, track, child (process)
\* or delete, write, extend, attrib, link, rename, revoke (filesystem-node); a
\* process record with none of these flags aborts.
C14_FirstFlagDecoded ==
  (input.fn = "event_data" /\ output # NoOutput) =>
    LET ev == input.ev
        p == FirstPresent(ProcOrder, ev.fflags)
        v == FirstPresent(VnodeOrder, ev.fflags)
    IN  /\ ev.filter = EVFILT_PROC =>
             IF p = 0 THEN output = PanicData
             ELSE output.tag = "Proc" /\ output.sub = ProcSub[p]
        /\ (ev.filter = EVFILT_VNODE /\ v # 0) =>
             output.tag = "Vnode" /\ output.sub = VnodeSub[v]

\* C14 witness: a process record with the exit and the fork flag has been
\* decoded, as Exit.
C14_Witness ==
  /\ input.fn = "event_data"
  /\ input.ev.filter = EVFILT_PROC
  /\ {"NOTE_EXIT", "NOTE_FORK"} \subseteq input.ev.fflags
  /\ output.tag = "Proc"
  /\ output.sub = "Exit"

\* The filters whose records are resolved by the reverse lookup of a descriptor.
DescriptorFilters == {EVFILT_READ, EVFILT_WRITE, EVFILT_VNODE}

\* C15: every registration of a descriptor-addressed filter that the kernel
\* queue holds, and every record pending for one, has an Fd or Filename entry
\* with that descriptor in the registration set, so the reverse lookup of a
\* delivered record finds an entry.
C15_KernelEntriesAreInTheSet ==
  /\ \A kn \in knotes :
       kn.filter \in DescriptorFilters =>
         \E w \in watched : OwnsFd(w) /\ w.ident.key = kn.key
  /\ \A ev \in pending :
       ev.filter \in DescriptorFilters =>
         \E w \in watched : OwnsFd(w) /\ w.ident.key = ev.ident

\* A remove_fd call of the descriptor key (remove_file is remove_fd of the file's
\* descriptor), or a remove_pid call of the process id key. A remove_* call
\* records the number and the filter it was given in lastCall.args, so the claims
\* below look at the step's own arguments.
RemoveCall(op, key, filter) ==
  \E kok \in BOOLEAN :
    \/ op = "remove_fd" /\ remove_fd(key, filter, kok)
    \/ op = "remove_pid" /\ key \in Pids /\ remove_pid(key, filter, kok)

\* The call has made one kernel call, with the single record EV_DELETE of
\* (key, filter).
OneDelete(call, key, filter) ==
  /\ call.kernel # "none"
  /\ call.batch = <<[ident |-> key, filter |-> filter, flags |-> {"EV_DELETE"},
                     fflags |-> {}, data |-> Zero64]>>

\* C16, as claimed: every remove_fd/remove_pid/remove_file call, started or not
\* and whatever the set holds, issues exactly one single-record kernel delete
\* for the given key and filter.
C16_RemoveAlwaysDeletes ==
  [][\A op \in {lastCall'.op} \cap {"remove_fd", "remove_pid"} :
     \A key \in {lastCall'.args[1]}, f \in {lastCall'.args[2]} :
       RemoveCall(op, key, f) => OneDelete(lastCall', key, f)]_vars

\* C16, amended: a remove call on a registration set that is not empty issues
\* exactly one single-record kernel delete for the given key and filter, started
\* or not and whether or not an entry matches; on an empty set it returns
\* Ok(false) and makes no kernel call.
C16_RemoveDeletesUnlessSetEmpty ==
  [][\A op \in {lastCall'.op} \cap {"remove_fd", "remove_pid"} :
     \A key \in {lastCall'.args[1]}, f \in {lastCall'.args[2]} :
       RemoveCall(op, key, f) =>
         IF watched = {}
           THEN /\ lastCall'.kernel = "none"
                /\ lastCall'.batch = <<>>
                /\ lastCall'.ret = "ok_false"
                /\ UNCHANGED <<watched, knotes, pending>>
           ELSE OneDelete(lastCall', key, f)]_vars

\* C16 witness: a remove call on an unstarted watcher, with an entry of another
\* key only in the set, has issued its kernel delete.
C16_Witness ==
  /\ lastCall.op = "remove_fd"
  /\ lastCall.kernel # "none"
  /\ Len(lastCall.batch) = 1
  /\ ~started
  /\ \E w \in watched : as_usize(w.ident) # lastCall.batch[1].ident

\* C17: every watch() call submits, in its one kernel call, exactly one add
\* record per entry of the registration set as it stands, the entries an earlier
\* watch() submitted included, each with the entry's key, filter and flags; a
\* record carries the clear action exactly when the clear option is on at the
\* call, and the option, once off, stays off.
C17_WatchSubmitsTheWholeSet ==
  /\ [][\A op \in {lastCall'.op} \cap {"watch"} :
          \A kok \in BOOLEAN, part \in SUBSET WatchBatch :
            (watch(kok, part) /\ lastCall'.ret # "panic") =>
              /\ lastCall'.kernel # "none"
              /\ DOMAIN lastCall'.batch = watched
              /\ \A w \in watched :
                   LET kev == lastCall'.batch[w] IN
                   /\ kev.ident = as_usize(w.ident)
                   /\ kev.filter = w.filter
                   /\ kev.fflags = w.flags
                   /\ kev.flags = (IF clear THEN {"EV_ADD", "EV_CLEAR"} ELSE {"EV_ADD"})]_vars
  /\ [][~clear => ~clear']_vars

\* C17 witness: after disable_clears a watch() has submitted again, without the
\* clear action, entries that an earlier watch() had registered.
C17_Witness ==
  /\ lastCall.op = "watch"
  /\ lastCall.ret = "err"
  /\ ~clear
  /\ watched # {}
  /\ WatchBatch \subseteq knotes
  /\ DOMAIN lastCall.batch = watched
  /\ \A w \in watched : lastCall.batch[w].flags = {"EV_ADD"}

\* An add_pid, add_fd, add_file, add_timer or add_filename call.
AddCall ==
  \/ \E pid \in Pids, f \in PidFilters, fl \in PidFlags, c \in BOOLEAN : add_pid(pid, f, fl, c)
  \/ \E fd \in CallerFds, f \in FdFilters, fl \in FdFlags, c \in BOOLEAN :
       add_fd(fd, f, fl, c) \/ add_file(fd, f, fl, c)
  \/ \E id \in TimerIds, d \in TimerDurations, c \in BOOLEAN : add_timer(id, d, c)
  \/ \E n \in Paths, f \in FileFilters, fl \in FileFlags, ok \in BOOLEAN, c \in BOOLEAN :
       add_filename(n, f, fl, ok, c)

\* C18: the add_* calls make no kernel call and leave the kernel queue's
\* registrations and pending records as they were; a registration comes to the
\* queue by a watch() call only, and a record is pending only for a registration
\* the queue holds, so an entry added after a watch() is not registered, and has
\* no event, until the next watch().
C18_AddIsInProcessOnly ==
  /\ [][\A op \in {lastCall'.op} \cap {"add_pid", "add_fd", "add_timer", "add_filename"} :
          AddCall =>
            /\ lastCall'.kernel = "none"
            /\ lastCall'.batch = <<>>
            /\ UNCHANGED <<knotes, pending, started, clear>>]_vars
  /\ [][~(knotes' \subseteq knotes) =>
          /\ lastCall'.op = "watch"
          /\ \E kok \in BOOLEAN, part \in SUBSET WatchBatch : watch(kok, part)]_vars
  /\ [](\A ev \in pending : Knote(ev.ident, ev.filter) \in knotes)

\* C18 witness: on a started watcher with a registration in the kernel queue, an
\* add_fd has put an entry in the set that the queue does not hold.
C18_Witness ==
  /\ lastCall.op = "add_fd"
  /\ started
  /\ knotes # {}
  /\ \E w \in watched :
       w.ident.kind = "Fd" /\ Knote(as_usize(w.ident), w.filter) \notin knotes

\* C19: when the kernel delete of a remove_fd/remove_pid call fails, the call
\* returns the error, having made that one kernel call and no other, whether
\* entries left the set or not; the entries it took out of the set before the
\* kernel call stay out.
C19_FailedDeleteReturnsError ==
  [][\A op \in {lastCall'.op} \cap {"remove_fd", "remove_pid"} :
     \A key \in {lastCall'.args[1]}, f \in {lastCall'.args[2]} :
       (RemoveCall(op, key, f) /\ lastCall'.kernel = "fail") =>
         /\ lastCall'.ret = "err"
         /\ Len(lastCall'.batch) = 1
         /\ watched' = {w \in watched : w.ident.kind = "Filename" \/ as_usize(w.ident) # key}
         /\ UNCHANGED <<knotes, pending>>]_vars

\* C19 witness: a remove_fd whose kernel delete failed has returned the error,
\* and the set it emptied is still empty.
C19_Witness ==
  /\ lastCall.op = "remove_fd"
  /\ lastCall.kernel = "fail"
  /\ lastCall.ret = "err"
  /\ watched = {}
  /\ handed # {}

\* C20: remove_fd(fd, _) takes out of the set only entries whose identifier is
\* Fd(fd), and remove_pid(pid, _) only entries whose identifier is Pid(pid);
\* entries of every other kind stay, also when their key is the same number.
C20_RemoveTouchesOneKind ==
  [][\A op \in {lastCall'.op} \cap {"remove_fd", "remove_pid"} :
     \A key \in {lastCall'.args[1]}, f \in {lastCall'.args[2]} :
       RemoveCall(op, key, f) =>
         \A w \in watched \ watched' :
           w.ident = (IF op = "remove_fd" THEN Fd(key) ELSE Pid(key))]_vars

\* C21: the started flag is false on a new watcher and, once true, stays true
\* through every operation, so next() on a started watcher always makes its
\* blocking wait and does not end the iteration with None.
C21_StartedIsMonotone ==
  /\ (lastCall.op = "new" => ~started)
  /\ [][started => started']_vars
  /\ [][\A op \in {lastCall'.op} \cap {"next"} :
          \A kok \in BOOLEAN :
            (started /\ next(kok)) =>
              /\ lastCall'.wait = "blocking"
              /\ lastCall'.ret # "none"]_vars

\* C21 witness: after a watch() and the removal of every entry, with nothing
\* left in the kernel queue, the flag is still true.
C21_Witness ==
  /\ started
  /\ lastCall.op \in {"remove_fd", "remove_pid"}
  /\ watched = {}
  /\ knotes = {}
  /\ handed # {}

====
